---- MODULE Spec2Model ----
(***************************************************************************)
(* Document classifier (appdotbuilder/doc-classifier-app): the database    *)
(* tables, the handlers that change them and the scoring algorithm of      *)
(* classifyDocument.                                                       *)
(*                                                                         *)
(* Numbers.  A JavaScript number is an IEEE-754 double.  A double x with   *)
(* 0 <= x < 32 that is a multiple of 2^-56 is written as five limbs        *)
(* <<l0, l1, l2, l3, l4>> in base Limb = 2^14, least significant first:    *)
(*     x = (l0 + l1*Limb + l2*Limb^2 + l3*Limb^3 + l4*Limb^4) / Limb^4     *)
(* so l4 is the integer part of x.  Decimal columns are kept as integers:  *)
(* numeric(3,2) in hundredths, numeric(4,3) in thousandths.                *)
(***************************************************************************)
EXTENDS Integers, Sequences, FiniteSets, TLC

Limb == 16384

Pow2(n) == 2 ^ n

RECURSIVE Log2Floor(_)
Log2Floor(n) == IF n <= 1 THEN 0 ELSE 1 + Log2Floor(n \div 2)

Zero == <<0, 0, 0, 0, 0>>

(* Position, in bits above the 2^-56 unit, of the last of the 53 significand
   bits of a value in the binade of x. *)
UlpBits(x) ==
    IF x[5] >= 1 THEN 4 + Log2Floor(x[5])
    ELSE IF x[4] >= 2048 THEN Log2Floor(x[4]) - 10
    ELSE 0

(* x + n units, n < Limb, with carry propagation. *)
AddUnits(x, n) ==
    LET s1 == x[1] + n
        s2 == x[2] + (s1 \div Limb)
        s3 == x[3] + (s2 \div Limb)
        s4 == x[4] + (s3 \div Limb)
        s5 == x[5] + (s4 \div Limb)
    IN  <<s1 % Limb, s2 % Limb, s3 % Limb, s4 % Limb, s5>>

(* IEEE-754 round-to-nearest, ties-to-even, of the exact value
   x + guard/Limb units (+ a non-zero tail below when sticky). *)
RoundToDouble(x, guard, sticky) ==
    LET e    == UlpBits(x)
        low  == x[1] % Pow2(e)
        rest == low * Limb + guard
        half == Pow2(e + 13)
        kept == [x EXCEPT ![1] = x[1] - low]
        odd  == ((x[1] \div Pow2(e)) % 2) = 1
        up   == \/ rest > half
                \/ rest = half /\ (sticky \/ odd)
    IN  IF up THEN AddUnits(kept, Pow2(e)) ELSE kept

(* a + b of two doubles (the += of the running score). *)
FloatAdd(a, b) ==
    LET s1 == a[1] + b[1]
        s2 == a[2] + b[2] + (s1 \div Limb)
        s3 == a[3] + b[3] + (s2 \div Limb)
        s4 == a[4] + b[4] + (s3 \div Limb)
        s5 == a[5] + b[5] + (s4 \div Limb)
    IN  RoundToDouble(<<s1 % Limb, s2 % Limb, s3 % Limb, s4 % Limb, s5>>, 0, FALSE)

(* a > b on doubles. *)
FloatGt(a, b) ==
    \E i \in 1..5 : a[i] > b[i] /\ \A j \in (i+1)..5 : a[j] = b[j]

(* a >= n for a small integer n. *)
FloatGeInt(a, n) == a[5] >= n

(* parseFloat of a numeric(3,2) string: the double nearest to w/100. *)
ParseFloat(w) ==
    LET d5 == w \div 100
        r5 == w % 100
        d4 == (r5 * Limb) \div 100
        r4 == (r5 * Limb) % 100
        d3 == (r4 * Limb) \div 100
        r3 == (r4 * Limb) % 100
        d2 == (r3 * Limb) \div 100
        r2 == (r3 * Limb) % 100
        d1 == (r2 * Limb) \div 100
        r1 == (r2 * Limb) % 100
        g  == (r1 * Limb) \div 100
        r0 == (r1 * Limb) % 100
    IN  RoundToDouble(<<d1, d2, d3, d4, d5>>, g, r0 # 0)

(* Math.min(bestScore / 3.0, 1.0).toString() stored in a numeric(4,3) column:
   the thousandths nearest to min(x/3, 1), halves rounded up.  The result is
   computed on the exact quotient; the double division and the shortest
   decimal printing move the quotient by less than 2^-52, and
   NormalizationIsExact states that no quotient is that close to a rounding
   boundary. *)
Floor2000(x) ==
    LET c1 == (2000 * x[1]) \div Limb
        c2 == (2000 * x[2] + c1) \div Limb
        c3 == (2000 * x[3] + c2) \div Limb
        c4 == (2000 * x[4] + c3) \div Limb
    IN  2000 * x[5] + c4

(* NormalizedScore kept to two decimals, as a weight is *)
NormalizedScoreToHundredths(bestScore) ==
    IF FloatGeInt(bestScore, 3) THEN 1000
    ELSE 10 * ((Floor2000(bestScore) + 30) \div 60)

(* NormalizedScore without Math.min *)
NormalizedScoreUncapped(bestScore) == (Floor2000(bestScore) + 3) \div 6

NormalizedScore(bestScore) ==
    IF FloatGeInt(bestScore, 3) THEN 1000
    ELSE (Floor2000(bestScore) + 3) \div 6

(* 2000 * x / 6 lies within 2^-28 of a multiple of 1/2 at which the
   rounding to thousandths changes *)
NearRoundingBoundary(x) ==
    LET c1 == (2000 * x[1]) \div Limb
        c2 == (2000 * x[2] + c1) \div Limb
        c3 == (2000 * x[3] + c2) \div Limb
        f3 == (2000 * x[3] + c2) % Limb
        f4 == (2000 * x[4] + c3) % Limb
        m  == (Floor2000(x) + 3) % 6
    IN  \/ m = 0 /\ f4 = 0 /\ f3 = 0
        \/ m = 5 /\ f4 = Limb - 1 /\ f3 = Limb - 1

(* ConfidenceLevel with each threshold one higher *)
ConfidenceLevelShifted(bestScore) ==
    IF FloatGeInt(bestScore, 3) THEN "high"
    ELSE IF FloatGeInt(bestScore, 2) THEN "medium"
    ELSE "low"

(* level of a best score ("Determine confidence level based on score") *)
ConfidenceLevel(bestScore) ==
    IF FloatGeInt(bestScore, 2) THEN "high"
    ELSE IF FloatGeInt(bestScore, 1) THEN "medium"
    ELSE "low"

(***************************************************************************)
(* Text.  A string is a sequence of one-character strings.  The modelled   *)
(* characters are the letters a b c in both cases and the regular          *)
(* expression metacharacters "|" and "[".  There is no "]" among them, so  *)
(* a pattern that holds a "[" opens a character class it never closes.     *)
(***************************************************************************)
ToLower(c) ==
    CASE c = "A" -> "a"
      [] c = "B" -> "b"
      [] c = "C" -> "c"
      [] OTHER -> c

(* String.prototype.toLowerCase *)
ToLowerCase(s) == [i \in 1..Len(s) |-> ToLower(s[i])]

(* String.prototype.includes *)
Includes(text, part) ==
    \E i \in 0..(Len(text) - Len(part)) :
        \A j \in 1..Len(part) : text[i + j] = part[j]

(* new RegExp(pattern, 'i') throws a SyntaxError for an unterminated class *)
RegExpCompiles(pattern) == \A i \in 1..Len(pattern) : pattern[i] # "["

(* The alternatives of a pattern: the maximal runs between "|". *)
Alternatives(pattern) ==
    LET cuts == {0, Len(pattern) + 1} \cup {i \in 1..Len(pattern) : pattern[i] = "|"}
    IN  { SubSeq(pattern, a + 1, b - 1) :
            <<a, b>> \in { c \in cuts \X cuts :
                             /\ c[1] < c[2]
                             /\ \A k \in cuts : ~(c[1] < k /\ k < c[2]) } }

(* regex.test(text) for a compiled pattern with the 'i' flag: some
   alternative occurs in the text, letters compared without case. *)
RegExpTest(pattern, text) ==
    \E alt \in Alternatives(pattern) : Includes(ToLowerCase(text), ToLowerCase(alt))

(* IsMatch without the catch branch: a pattern that does not compile
   matches nothing *)
IsMatchRegexOnly(pattern, documentContent) ==
    RegExpCompiles(pattern) /\ RegExpTest(pattern, documentContent)

(* "Test pattern matching": regex first, substring when it does not compile *)
IsMatch(pattern, documentContent) ==
    IF RegExpCompiles(pattern)
    THEN RegExpTest(pattern, documentContent)
    ELSE Includes(documentContent, ToLowerCase(pattern))

(***************************************************************************)
(* State.  Each table is the sequence of its rows; a serial column takes   *)
(* its values from a counter that never goes back.  SQL NULL, a JavaScript *)
(* null and an absent optional input are Null, a present value v is        *)
(* Some(v).  Timestamps, and the columns of documents that no handler      *)
(* reads (filename, file_type, file_size), are left out.                   *)
(***************************************************************************)
VARIABLES documents, categories, criteria, classification_results,
          documents_id_seq, categories_id_seq, criteria_id_seq,
          classification_results_id_seq, pending, last

tables == <<documents, categories, criteria, classification_results>>
serials == <<documents_id_seq, categories_id_seq, criteria_id_seq,
             classification_results_id_seq>>
vars == <<documents, categories, criteria, classification_results,
          documents_id_seq, categories_id_seq, criteria_id_seq,
          classification_results_id_seq, pending, last>>

Null == <<>>
Some(v) == <<v>>

Front(s) == SubSeq(s, 1, Len(s) - 1)
Last(s) == s[Len(s)]

Ids(table) == {table[i].id : i \in 1..Len(table)}

(* the classifyDocument calls that may be in flight together *)
TwoCalls == {1, 2}

(* The rows of a query without ORDER BY come in an order SQL leaves open. *)
RECURSIVE Arrangements(_)
Arrangements(S) ==
    IF S = {} THEN {<<>>}
    ELSE UNION { { <<x>> \o rest : rest \in Arrangements(S \ {x}) } : x \in S }

Orderings(rows) ==
    { [i \in 1..Len(rows) |-> rows[f[i]]] : f \in Arrangements(1..Len(rows)) }

RECURSIVE Ascending(_)
Ascending(S) ==
    IF S = {} THEN <<>>
    ELSE LET m == CHOOSE x \in S : \A y \in S : x <= y
         IN  <<m>> \o Ascending(S \ {m})

(* SelectDocument without its where clause *)
SelectDocumentAny(id) == documents

(* db.select().from(documentsTable).where(eq(documentsTable.id, id)) *)
SelectDocument(id) == SelectSeq(documents, LAMBDA d : d.id = id)

(* db.select().from(criteriaTable).innerJoin(categoriesTable,
     eq(criteriaTable.category_id, categoriesTable.id)); categories.id is
   the primary key, so a criterion joins with at most one category. *)
CategoryById(id) == CHOOSE c \in {categories[j] : j \in 1..Len(categories)} : c.id = id

CriteriaJoinCategories ==
    LET joined == SelectSeq(criteria, LAMBDA c : c.category_id \in Ids(categories))
    IN  [k \in 1..Len(joined) |->
           [criteria |-> joined[k], categories |-> CategoryById(joined[k].category_id)]]

(* ScoreRow with the matched criterion put at the head of the list *)
ScoreRowPrepending(categoryScores, criteriaRow, documentContent) ==
    LET crit     == criteriaRow.criteria
        category == criteriaRow.categories
        weight   == ParseFloat(crit.weight)
        scores   == IF category.id \in DOMAIN categoryScores
                    THEN categoryScores
                    ELSE categoryScores @@
                         (category.id :> [score |-> Zero,
                                          matchedCriteria |-> <<>>,
                                          category |-> category])
    IN  IF IsMatch(crit.pattern, documentContent)
        THEN [scores EXCEPT
                ![category.id].score = FloatAdd(@, weight),
                ![category.id].matchedCriteria =
                    <<[id |-> crit.id, name |-> crit.name,
                       pattern |-> crit.pattern, weight |-> crit.weight]>> \o @]
        ELSE scores

(* ScoreRow with one running score for all categories: a match adds its
   weight to the score of every category seen so far *)
ScoreRowSharedScore(categoryScores, criteriaRow, documentContent) ==
    LET crit     == criteriaRow.criteria
        category == criteriaRow.categories
        weight   == ParseFloat(crit.weight)
        scores   == IF category.id \in DOMAIN categoryScores
                    THEN categoryScores
                    ELSE categoryScores @@
                         (category.id :> [score |-> Zero,
                                          matchedCriteria |-> <<>>,
                                          category |-> category])
    IN  IF IsMatch(crit.pattern, documentContent)
        THEN [k \in DOMAIN scores |->
                [score |-> FloatAdd(scores[k].score, weight),
                 matchedCriteria |->
                     IF k = category.id
                     THEN Append(scores[k].matchedCriteria,
                                 [id |-> crit.id, name |-> crit.name,
                                  pattern |-> crit.pattern, weight |-> crit.weight])
                     ELSE scores[k].matchedCriteria,
                 category |-> scores[k].category]]
        ELSE scores

(* One turn of the scoring loop over criteriaWithCategories. *)
ScoreRow(categoryScores, criteriaRow, documentContent) ==
    LET crit     == criteriaRow.criteria
        category == criteriaRow.categories
        weight   == ParseFloat(crit.weight)
        scores   == IF category.id \in DOMAIN categoryScores
                    THEN categoryScores
                    ELSE categoryScores @@
                         (category.id :> [score |-> Zero,
                                          matchedCriteria |-> <<>>,
                                          category |-> category])
    IN  IF IsMatch(crit.pattern, documentContent)
        THEN [scores EXCEPT
                ![category.id].score = FloatAdd(@, weight),
                ![category.id].matchedCriteria =
                    Append(@, [id |-> crit.id, name |-> crit.name,
                               pattern |-> crit.pattern, weight |-> crit.weight])]
        ELSE scores

RECURSIVE CategoryScores(_, _)
CategoryScores(criteriaWithCategories, documentContent) ==
    IF criteriaWithCategories = <<>> THEN <<>>
    ELSE ScoreRow(CategoryScores(Front(criteriaWithCategories), documentContent),
                  Last(criteriaWithCategories), documentContent)

(* Object.entries of an object with integer keys: ascending key order. *)
ObjectKeys(categoryScores) == Ascending(DOMAIN categoryScores)

(* SelectStep with >= in place of >: the last maximum wins *)
SelectStepLastMax(best, categoryId, data) ==
    IF ~FloatGt(best.bestScore, data.score)
    THEN [bestScore |-> data.score, bestCategoryId |-> categoryId]
    ELSE best

(* SelectStep that settles for the first category with a positive score *)
SelectStepFirstPositive(best, categoryId, data) ==
    IF best.bestCategoryId = 0 /\ FloatGt(data.score, Zero)
    THEN [bestScore |-> data.score, bestCategoryId |-> categoryId]
    ELSE best

(* One turn of the selection loop; bestCategoryId 0 stands for null. *)
SelectStep(best, categoryId, data) ==
    IF FloatGt(data.score, best.bestScore)
    THEN [bestScore |-> data.score, bestCategoryId |-> categoryId]
    ELSE best

RECURSIVE SelectBest(_, _)
SelectBest(keys, categoryScores) ==
    IF keys = <<>> THEN [bestScore |-> Zero, bestCategoryId |-> 0]
    ELSE SelectStep(SelectBest(Front(keys), categoryScores),
                    Last(keys), categoryScores[Last(keys)])

(***************************************************************************)
(* Bound: how many ids the four serial counters may hand out in all.       *)
(***************************************************************************)
MaxInserts == 6

Inserts == documents_id_seq + categories_id_seq + criteria_id_seq
               + classification_results_id_seq

(* Inputs of the handlers. *)
RichText == <<"[", "A", "b">>
PoorText == <<"a">>

ContentInputs == {Null, Some(<<>>), Some(RichText), Some(PoorText)}

CategoryInputs ==
    {[name |-> "Business", color |-> "#3B82F6", description |-> Null]}

(* weight is the input number in thousandths *)
CriteriaInputs ==
    {[name |-> "n1", pattern |-> <<"c", "|", "B">>, weight |-> 700],
     [name |-> "n2", pattern |-> <<"[", "A">>, weight |-> 600]}

UpdateInputs ==
    {[category_id |-> Some(2), name |-> Null, pattern |-> Null, weight |-> Null],
     [category_id |-> Null, name |-> Some("n2"), pattern |-> Null, weight |-> Some(600)]}

(* !document.content: null and the empty string are both falsy *)
HasNoContent(document) == document.content = Null \/ document.content = Some(<<>>)

(* Classification without the check of step 4: a best score of zero is
   classified into the first scored category *)
ClassificationAcceptingZero(document, criteriaWithCategories) ==
    LET documentContent == ToLowerCase(document.content[1])
        categoryScores  == CategoryScores(criteriaWithCategories, documentContent)
        best            == SelectBest(ObjectKeys(categoryScores), categoryScores)
        bestCategoryId  == IF best.bestCategoryId = 0
                           THEN ObjectKeys(categoryScores)[1]
                           ELSE best.bestCategoryId
    IN  [error |-> "none", rows |-> criteriaWithCategories,
         categoryScores |-> categoryScores,
         bestCategoryId |-> bestCategoryId,
         bestScore |-> best.bestScore,
         confidenceLevel |-> ConfidenceLevel(best.bestScore),
         normalizedScore |-> NormalizedScore(best.bestScore)]

(* Steps 3 to 5 of classifyDocument on the fetched document and rows: the
   error it throws, or the values of the row it inserts. *)
Classification(document, criteriaWithCategories) ==
    LET documentContent == ToLowerCase(document.content[1])
        categoryScores  == CategoryScores(criteriaWithCategories, documentContent)
        best            == SelectBest(ObjectKeys(categoryScores), categoryScores)
    IN  IF best.bestCategoryId = 0 \/ best.bestScore = Zero
        THEN [error |-> "NoMatch", rows |-> criteriaWithCategories,
              categoryScores |-> categoryScores]
        ELSE [error |-> "none", rows |-> criteriaWithCategories,
              categoryScores |-> categoryScores,
              bestCategoryId |-> best.bestCategoryId,
              bestScore |-> best.bestScore,
              confidenceLevel |-> ConfidenceLevel(best.bestScore),
              normalizedScore |-> NormalizedScore(best.bestScore)]

(* ClassifyOutcome with the criteria query and its check moved ahead of
   the content check *)
ClassifyOutcomeCriteriaFirst(found, rows) ==
    IF Len(found) = 0
    THEN [error |-> "DocumentNotFound", rows |-> <<>>, categoryScores |-> <<>>]
    ELSE IF Len(rows) = 0
    THEN [error |-> "NoCriteria", rows |-> <<>>, categoryScores |-> <<>>]
    ELSE IF HasNoContent(found[1])
    THEN [error |-> "NoContent", rows |-> rows, categoryScores |-> <<>>]
    ELSE Classification(found[1], rows)

(* Steps 1 to 5: the checks in the order the handler makes them.  found is
   the result of the document query and rows what the criteria query
   returns; a call that throws before that query keeps no rows. *)
ClassifyOutcome(found, rows) ==
    IF Len(found) = 0
    THEN [error |-> "DocumentNotFound", rows |-> <<>>, categoryScores |-> <<>>]
    ELSE IF HasNoContent(found[1])
    THEN [error |-> "NoContent", rows |-> <<>>, categoryScores |-> <<>>]
    ELSE IF Len(rows) = 0
    THEN [error |-> "NoCriteria", rows |-> <<>>, categoryScores |-> <<>>]
    ELSE Classification(found[1], rows)

(* NewResult that keeps the names matched by the call before it *)
NewResultAccumulating(document_id, c) ==
    [id |-> classification_results_id_seq + 1,
     document_id |-> document_id,
     category_id |-> c.bestCategoryId,
     confidence_level |-> c.confidenceLevel,
     confidence_score |-> c.normalizedScore,
     classification_method |-> "Pattern Matching",
     matched_criteria |->
         (IF classification_results = <<>> THEN <<>>
          ELSE Last(classification_results).matched_criteria) \o
         [i \in 1..Len(c.categoryScores[c.bestCategoryId].matchedCriteria) |->
             c.categoryScores[c.bestCategoryId].matchedCriteria[i].name]]

(* Step 6: the row inserted into classification_results.  JSON.stringify
   followed by JSON.parse gives back the same array of names. *)
NewResult(document_id, c) ==
    [id |-> classification_results_id_seq + 1,
     document_id |-> document_id,
     category_id |-> c.bestCategoryId,
     confidence_level |-> c.confidenceLevel,
     confidence_score |-> c.normalizedScore,
     classification_method |-> "Pattern Matching",
     matched_criteria |->
         [i \in 1..Len(c.categoryScores[c.bestCategoryId].matchedCriteria) |->
             c.categoryScores[c.bestCategoryId].matchedCriteria[i].name]]

(* InsertResult that keeps one result per document *)
InsertResultReplacing(results, row) ==
    Append(SelectSeq(results, LAMBDA r : r.document_id # row.document_id), row)

(* db.insert(classificationResultsTable).values(row) *)
InsertResult(results, row) == Append(results, row)

(* Step 7: the criteria of the best category whose id is among the matched
   ones.  The order of that query is open, so the details are kept as a set. *)
MatchedCriteriaDetails(bestCategoryId, matchedCriteria) ==
    { c \in {criteria[i] : i \in 1..Len(criteria)} :
        /\ c.category_id = bestCategoryId
        /\ c.id \in {matchedCriteria[i].id : i \in 1..Len(matchedCriteria)} }

(* ClassifyDocument that answers with the category of the first fetched
   row in place of the best category *)
ClassifyDocumentFirstCategory(document_id) ==
    \E rows \in Orderings(CriteriaJoinCategories) :
    \E c \in {ClassifyOutcome(SelectDocument(document_id), rows)} :
        IF c.error # "none"
        THEN /\ last' = [op |-> "classifyDocument", document_id |-> document_id,
                         error |-> c.error, rows |-> c.rows,
                         categoryScores |-> c.categoryScores, result |-> Null,
                         category |-> Null, matched_criteria_details |-> {}]
             /\ UNCHANGED <<tables, serials, pending>>
        ELSE \E row \in {NewResult(document_id, c)} :
             /\ classification_results' = InsertResult(classification_results, row)
             /\ classification_results_id_seq' = classification_results_id_seq + 1
             /\ last' = [op |-> "classifyDocument", document_id |-> document_id,
                         error |-> "none", rows |-> c.rows,
                         categoryScores |-> c.categoryScores,
                         result |-> Some(row),
                         category |-> Some(c.rows[1].categories),
                         matched_criteria_details |->
                             MatchedCriteriaDetails(c.bestCategoryId,
                                 c.categoryScores[c.bestCategoryId].matchedCriteria)]
             /\ UNCHANGED <<documents, categories, criteria, documents_id_seq,
                            categories_id_seq, criteria_id_seq, pending>>

(* ClassifyDocument that drops the earlier results of the document when
   the call fails *)
ClassifyDocumentClearingOnFailure(document_id) ==
    \E rows \in Orderings(CriteriaJoinCategories) :
    \E c \in {ClassifyOutcome(SelectDocument(document_id), rows)} :
        IF c.error # "none"
        THEN /\ last' = [op |-> "classifyDocument", document_id |-> document_id,
                         error |-> c.error, rows |-> c.rows,
                         categoryScores |-> c.categoryScores, result |-> Null,
                         category |-> Null, matched_criteria_details |-> {}]
             /\ classification_results' =
                    SelectSeq(classification_results,
                              LAMBDA r : r.document_id # document_id)
             /\ UNCHANGED <<documents, categories, criteria, serials, pending>>
        ELSE \E row \in {NewResult(document_id, c)} :
             /\ classification_results' = InsertResult(classification_results, row)
             /\ classification_results_id_seq' = classification_results_id_seq + 1
             /\ last' = [op |-> "classifyDocument", document_id |-> document_id,
                         error |-> "none", rows |-> c.rows,
                         categoryScores |-> c.categoryScores,
                         result |-> Some(row),
                         category |-> Some(c.categoryScores[c.bestCategoryId].category),
                         matched_criteria_details |->
                             MatchedCriteriaDetails(c.bestCategoryId,
                                 c.categoryScores[c.bestCategoryId].matchedCriteria)]
             /\ UNCHANGED <<documents, categories, criteria, documents_id_seq,
                            categories_id_seq, criteria_id_seq, pending>>

(* classifyDocument({document_id}); last keeps what the call threw or
   returned together with the rows and scores it worked on. *)
ClassifyDocument(document_id) ==
    \E rows \in Orderings(CriteriaJoinCategories) :
    \E c \in {ClassifyOutcome(SelectDocument(document_id), rows)} :
        IF c.error # "none"
        THEN /\ last' = [op |-> "classifyDocument", document_id |-> document_id,
                         error |-> c.error, rows |-> c.rows,
                         categoryScores |-> c.categoryScores, result |-> Null,
                         category |-> Null, matched_criteria_details |-> {}]
             /\ UNCHANGED <<tables, serials, pending>>
        ELSE \E row \in {NewResult(document_id, c)} :
             /\ classification_results' = InsertResult(classification_results, row)
             /\ classification_results_id_seq' = classification_results_id_seq + 1
             /\ last' = [op |-> "classifyDocument", document_id |-> document_id,
                         error |-> "none", rows |-> c.rows,
                         categoryScores |-> c.categoryScores,
                         result |-> Some(row),
                         category |-> Some(c.categoryScores[c.bestCategoryId].category),
                         matched_criteria_details |->
                             MatchedCriteriaDetails(c.bestCategoryId,
                                 c.categoryScores[c.bestCategoryId].matchedCriteria)]
             /\ UNCHANGED <<documents, categories, criteria, documents_id_seq,
                            categories_id_seq, criteria_id_seq, pending>>

(* uploadDocument(input): content: input.content || null *)
(* UploadDocument storing the content as given, the empty string included *)
UploadDocumentKeepingEmpty(content) ==
    LET row == [id |-> documents_id_seq + 1, content |-> content]
    IN  /\ documents' = Append(documents, row)
        /\ documents_id_seq' = documents_id_seq + 1
        /\ last' = [op |-> "uploadDocument", result |-> row]
        /\ UNCHANGED <<categories, criteria, classification_results,
                       categories_id_seq, criteria_id_seq,
                       classification_results_id_seq, pending>>

UploadDocument(content) ==
    LET row == [id |-> documents_id_seq + 1,
                content |-> IF content = Null \/ content = Some(<<>>)
                            THEN Null ELSE content]
    IN  /\ documents' = Append(documents, row)
        /\ documents_id_seq' = documents_id_seq + 1
        /\ last' = [op |-> "uploadDocument", result |-> row]
        /\ UNCHANGED <<categories, criteria, classification_results,
                       categories_id_seq, criteria_id_seq,
                       classification_results_id_seq, pending>>

(* CreateCategory as a stub: answers with id 0 and stores nothing *)
CreateCategoryStub(input) ==
    /\ last' = [op |-> "createCategory",
                result |-> [id |-> 0, name |-> input.name,
                            color |-> input.color,
                            description |-> input.description,
                            created_at |-> categories_id_seq]]
    /\ UNCHANGED <<tables, serials, pending>>

(* createCategory(input): inserts the category and returns the stored row;
   created_at is the time of the insert, counted in the categories created
   so far *)
CreateCategory(input) ==
    LET row == [id |-> categories_id_seq + 1, name |-> input.name,
                color |-> input.color, description |-> input.description,
                created_at |-> categories_id_seq]
    IN  /\ categories' = Append(categories, row)
        /\ categories_id_seq' = categories_id_seq + 1
        /\ last' = [op |-> "createCategory", result |-> row]
        /\ UNCHANGED <<documents, criteria, classification_results,
                       documents_id_seq, criteria_id_seq,
                       classification_results_id_seq, pending>>

(* the fields updateCategory sets: only those the input provides; a
   description may be provided as null *)
UpdatedCategory(c, input) ==
    [id |-> c.id,
     name |-> IF input.name # Null THEN input.name[1] ELSE c.name,
     color |-> IF input.color # Null THEN input.color[1] ELSE c.color,
     description |-> IF input.description # Null THEN input.description[1]
                     ELSE c.description,
     created_at |-> c.created_at]

(* UpdateCategory as a stub: answers from the input alone, with defaults
   for what the input leaves out, and neither reads nor writes the table *)
UpdateCategoryStub(id, input) ==
    /\ last' = [op |-> "updateCategory", error |-> "none",
                result |-> Some([id |-> id,
                     name |-> IF input.name # Null THEN input.name[1]
                              ELSE "Updated Category",
                     color |-> IF input.color # Null THEN input.color[1]
                               ELSE "#000000",
                     description |-> IF input.description # Null
                                     THEN input.description[1] ELSE Null,
                     created_at |-> categories_id_seq])]
    /\ UNCHANGED <<tables, serials, pending>>

(* updateCategory(input): fails when no category has the id, otherwise
   updates the row and returns it as stored *)
UpdateCategory(id, input) ==
    IF id \notin Ids(categories)
    THEN /\ last' = [op |-> "updateCategory", error |-> "CategoryNotFound",
                     result |-> Null]
         /\ UNCHANGED <<tables, serials, pending>>
    ELSE /\ categories' = [i \in 1..Len(categories) |->
                             IF categories[i].id = id
                             THEN UpdatedCategory(categories[i], input)
                             ELSE categories[i]]
         /\ last' = [op |-> "updateCategory", error |-> "none",
                     result |-> Some(UpdatedCategory(CategoryById(id), input))]
         /\ UNCHANGED <<documents, criteria, classification_results, serials, pending>>

(* input.weight.toString() stored in a numeric(3,2) column: the nearest
   hundredth, halves rounded up *)
WeightToNumeric(weight) == (weight + 5) \div 10

(* defaultNow() of criteria.created_at: time is counted in the criteria
   created so far, so it moves with every insert into the table *)
Now == criteria_id_seq

(* the row createCriteria inserts *)
NewCriteria(category_id, input) ==
    [id |-> criteria_id_seq + 1, category_id |-> category_id,
     name |-> input.name, pattern |-> input.pattern,
     weight |-> WeightToNumeric(input.weight),
     created_at |-> Now]

(* createCriteria(input), its two statements in one step *)
CreateCriteria(category_id, input) ==
    IF category_id \notin Ids(categories)
    THEN /\ last' = [op |-> "createCriteria", error |-> "CategoryNotFound",
                     result |-> Null]
         /\ UNCHANGED <<tables, serials, pending>>
    ELSE /\ criteria' = Append(criteria, NewCriteria(category_id, input))
         /\ criteria_id_seq' = criteria_id_seq + 1
         /\ last' = [op |-> "createCriteria", error |-> "none",
                     result |-> Some(NewCriteria(category_id, input))]
         /\ UNCHANGED <<documents, categories, classification_results,
                        documents_id_seq, categories_id_seq,
                        classification_results_id_seq, pending>>

(* UpdatedCriteria that also stamps the row with the time of the update *)
UpdatedCriteriaStamped(c, input) ==
    [id |-> c.id,
     category_id |-> IF input.category_id # Null THEN input.category_id[1]
                     ELSE c.category_id,
     name |-> IF input.name # Null THEN input.name[1] ELSE c.name,
     pattern |-> IF input.pattern # Null THEN input.pattern[1] ELSE c.pattern,
     weight |-> IF input.weight # Null THEN WeightToNumeric(input.weight[1])
                ELSE c.weight,
     created_at |-> Now]

(* the fields updateCriteria sets: only those the input provides *)
UpdatedCriteria(c, input) ==
    [id |-> c.id,
     category_id |-> IF input.category_id # Null THEN input.category_id[1]
                     ELSE c.category_id,
     name |-> IF input.name # Null THEN input.name[1] ELSE c.name,
     pattern |-> IF input.pattern # Null THEN input.pattern[1] ELSE c.pattern,
     weight |-> IF input.weight # Null THEN WeightToNumeric(input.weight[1])
                ELSE c.weight,
     created_at |-> c.created_at]

(* an input with the id alone leaves updateData empty.  What set({}) does
   with it is the query builder's business: it either writes the row back
   as it is or rejects the statement, and both leave the tables alone *)
NoValuesToSet(input) ==
    /\ input.category_id = Null
    /\ input.name = Null
    /\ input.pattern = Null
    /\ input.weight = Null

(* updateCriteria(input), its statements in one step *)
UpdateCriteria(id, input) ==
    IF id \notin Ids(criteria)
    THEN /\ last' = [op |-> "updateCriteria", error |-> "CriteriaNotFound",
                     result |-> Null]
         /\ UNCHANGED <<tables, serials, pending>>
    ELSE IF input.category_id # Null /\ input.category_id[1] \notin Ids(categories)
    THEN /\ last' = [op |-> "updateCriteria", error |-> "CategoryNotFound",
                     result |-> Null]
         /\ UNCHANGED <<tables, serials, pending>>
    ELSE IF NoValuesToSet(input)
    THEN \E error \in {"none", "NoValuesToSet"} :
            /\ last' = [op |-> "updateCriteria", error |-> error,
                        result |-> IF error = "none"
                                   THEN Some(CHOOSE c \in {criteria[i] : i \in 1..Len(criteria)} :
                                                c.id = id)
                                   ELSE Null]
            /\ UNCHANGED <<tables, serials, pending>>
    ELSE /\ criteria' = [i \in 1..Len(criteria) |->
                           IF criteria[i].id = id
                           THEN UpdatedCriteria(criteria[i], input)
                           ELSE criteria[i]]
         /\ last' = [op |-> "updateCriteria", error |-> "none",
                     result |-> Some(UpdatedCriteria(
                         (CHOOSE c \in {criteria[i] : i \in 1..Len(criteria)} : c.id = id),
                         input))]
         /\ UNCHANGED <<documents, categories, classification_results, serials, pending>>

(* DeleteCriteria filtering on the wrong column *)
DeleteCriteriaByCategory(criteriaId) ==
    /\ criteria' = SelectSeq(criteria, LAMBDA c : c.category_id # criteriaId)
    /\ last' = [op |-> "deleteCriteria", id |-> criteriaId,
                result |-> criteriaId \in {criteria[i].category_id : i \in 1..Len(criteria)}]
    /\ UNCHANGED <<documents, categories, classification_results, serials, pending>>

(* deleteCriteria(criteriaId) *)
DeleteCriteria(criteriaId) ==
    /\ criteria' = SelectSeq(criteria, LAMBDA c : c.id # criteriaId)
    /\ last' = [op |-> "deleteCriteria", id |-> criteriaId,
                result |-> criteriaId \in Ids(criteria)]
    /\ UNCHANGED <<documents, categories, classification_results, serials, pending>>

(* DeleteCategory whose first delete has lost its where clause *)
DeleteCategoryAllResults(categoryId) ==
    /\ classification_results' = <<>>
    /\ criteria' = SelectSeq(criteria, LAMBDA c : c.category_id # categoryId)
    /\ categories' = SelectSeq(categories, LAMBDA c : c.id # categoryId)
    /\ last' = [op |-> "deleteCategory", id |-> categoryId,
                result |-> categoryId \in Ids(categories)]
    /\ UNCHANGED <<documents, serials, pending>>

(* DeleteCategory without its second delete *)
DeleteCategoryKeepingCriteria(categoryId) ==
    /\ classification_results' =
           SelectSeq(classification_results, LAMBDA r : r.category_id # categoryId)
    /\ categories' = SelectSeq(categories, LAMBDA c : c.id # categoryId)
    /\ last' = [op |-> "deleteCategory", id |-> categoryId,
                result |-> categoryId \in Ids(categories)]
    /\ UNCHANGED <<documents, criteria, serials, pending>>

(* deleteCategory(categoryId), its three statements in one step *)
DeleteCategory(categoryId) ==
    /\ classification_results' =
           SelectSeq(classification_results, LAMBDA r : r.category_id # categoryId)
    /\ criteria' = SelectSeq(criteria, LAMBDA c : c.category_id # categoryId)
    /\ categories' = SelectSeq(categories, LAMBDA c : c.id # categoryId)
    /\ last' = [op |-> "deleteCategory", id |-> categoryId,
                result |-> categoryId \in Ids(categories)]
    /\ UNCHANGED <<documents, serials, pending>>

Init ==
    /\ documents = <<>>
    /\ categories = <<>>
    /\ criteria = <<>>
    /\ classification_results = <<>>
    /\ documents_id_seq = 0
    /\ categories_id_seq = 0
    /\ criteria_id_seq = 0
    /\ classification_results_id_seq = 0
    /\ pending = [createCriteria |-> Null, deleteCategory |-> Null,
                  classifyDocument |-> [k \in TwoCalls |-> Null]]
    /\ last = [op |-> "none"]

(* Any call of any handler, on ids that exist and on the next id no row
   has yet.  The handlers that insert are called while ids are left. *)
Next ==
    \/ /\ Inserts < MaxInserts
       /\ \E content \in ContentInputs : UploadDocument(content)
    \/ /\ Inserts < MaxInserts
       /\ \E input \in CategoryInputs : CreateCategory(input)
    \/ /\ Inserts < MaxInserts
       /\ \E category_id \in 1..(categories_id_seq + 1), input \in CriteriaInputs :
             CreateCriteria(category_id, input)
    \/ \E id \in 1..(criteria_id_seq + 1), input \in UpdateInputs :
          UpdateCriteria(id, input)
    \/ \E id \in 1..(criteria_id_seq + 1) : DeleteCriteria(id)
    \/ \E id \in 1..(categories_id_seq + 1) : DeleteCategory(id)
    \/ /\ Inserts < MaxInserts
       /\ \E id \in 1..(documents_id_seq + 1) : ClassifyDocument(id)

Spec == Init /\ [][Next]_vars

(***************************************************************************)
(* The scoring engine on larger criteria sets: one category, criteria that *)
(* all match the document, weights 0.08 and 0.84.                          *)
(***************************************************************************)
MaxScoringInserts == 7

ScoringInputs ==
    {[name |-> "n1", pattern |-> <<"b">>, weight |-> 80],
     [name |-> "n2", pattern |-> <<"a", "|", "b">>, weight |-> 840]}

NextScoring ==
    \/ /\ Inserts < MaxScoringInserts
       /\ documents_id_seq = 0
       /\ UploadDocument(Some(RichText))
    \/ /\ Inserts < MaxScoringInserts
       /\ categories_id_seq = 0
       /\ \E input \in CategoryInputs : CreateCategory(input)
    \/ /\ Inserts < MaxScoringInserts
       /\ \E input \in ScoringInputs : CreateCriteria(1, input)
    \/ /\ Inserts < MaxScoringInserts
       /\ ClassifyDocument(1)

SpecScoring == Init /\ [][NextScoring]_vars

(***************************************************************************)
(* Concurrent requests.  A handler awaits each database statement, so the  *)
(* statements of two calls interleave; no handler opens a transaction.     *)
(* Here createCriteria and deleteCategory run statement by statement, one  *)
(* call of each in flight at a time, and pending holds what the call in    *)
(* flight carries from one statement to the next.                          *)
(***************************************************************************)
MaxConcInserts == 4

(* the ids in use together with those the calls in flight are still to
   take *)
InsertsInFlight ==
    Inserts + (IF pending.createCriteria = Null THEN 0 ELSE 1)
            + Cardinality({k \in TwoCalls :
                             /\ pending.classifyDocument[k] # Null
                             /\ pending.classifyDocument[k][1].pc \in {"criteria", "insert"}})

(* createCriteria, first statement: the select of the category and the
   throw when it returns no row *)
CreateCriteriaCheck(category_id, input) ==
    /\ pending.createCriteria = Null
    /\ IF category_id \notin Ids(categories)
       THEN /\ last' = [op |-> "createCriteria", error |-> "CategoryNotFound",
                        result |-> Null]
            /\ UNCHANGED <<tables, serials, pending>>
       ELSE /\ pending' = [pending EXCEPT !.createCriteria =
                              Some([category_id |-> category_id, input |-> input])]
            /\ last' = [op |-> "createCriteria", error |-> "inFlight",
                        result |-> Null]
            /\ UNCHANGED <<tables, serials>>

(* createCriteria, second statement: the insert *)
CreateCriteriaInsert ==
    /\ pending.createCriteria # Null
    /\ \E row \in {NewCriteria(pending.createCriteria[1].category_id,
                               pending.createCriteria[1].input)} :
          /\ criteria' = Append(criteria, row)
          /\ criteria_id_seq' = criteria_id_seq + 1
          /\ last' = [op |-> "createCriteria", error |-> "none", result |-> Some(row)]
    /\ pending' = [pending EXCEPT !.createCriteria = Null]
    /\ UNCHANGED <<documents, categories, classification_results,
                   documents_id_seq, categories_id_seq,
                   classification_results_id_seq>>

(* deleteCategory, first statement: delete the results of the category *)
DeleteCategoryResults(categoryId) ==
    /\ pending.deleteCategory = Null
    /\ classification_results' =
           SelectSeq(classification_results, LAMBDA r : r.category_id # categoryId)
    /\ pending' = [pending EXCEPT !.deleteCategory =
                      Some([categoryId |-> categoryId, done |-> 1])]
    /\ last' = [op |-> "deleteCategory", id |-> categoryId, result |-> Null]
    /\ UNCHANGED <<documents, categories, criteria, serials>>

(* deleteCategory, second statement: delete the criteria of the category *)
DeleteCategoryCriteria ==
    /\ pending.deleteCategory # Null
    /\ pending.deleteCategory[1].done = 1
    /\ criteria' = SelectSeq(criteria,
           LAMBDA c : c.category_id # pending.deleteCategory[1].categoryId)
    /\ pending' = [pending EXCEPT !.deleteCategory =
                      Some([categoryId |-> pending.deleteCategory[1].categoryId,
                            done |-> 2])]
    /\ last' = [op |-> "deleteCategory",
                id |-> pending.deleteCategory[1].categoryId, result |-> Null]
    /\ UNCHANGED <<documents, categories, classification_results, serials>>

(* deleteCategory, third statement: delete the category; rowCount > 0 *)
DeleteCategoryCategory ==
    /\ pending.deleteCategory # Null
    /\ pending.deleteCategory[1].done = 2
    /\ categories' = SelectSeq(categories,
           LAMBDA c : c.id # pending.deleteCategory[1].categoryId)
    /\ pending' = [pending EXCEPT !.deleteCategory = Null]
    /\ last' = [op |-> "deleteCategory",
                id |-> pending.deleteCategory[1].categoryId,
                result |-> Some(pending.deleteCategory[1].categoryId \in Ids(categories))]
    /\ UNCHANGED <<documents, criteria, classification_results, serials>>

NextConc ==
    \/ /\ InsertsInFlight < MaxConcInserts
       /\ \E content \in {Some(RichText), Some(PoorText)} : UploadDocument(content)
    \/ /\ InsertsInFlight < MaxConcInserts
       /\ \E input \in CategoryInputs : CreateCategory(input)
    \/ /\ InsertsInFlight < MaxConcInserts
       /\ \E category_id \in 1..(categories_id_seq + 1), input \in CriteriaInputs :
             CreateCriteriaCheck(category_id, input)
    \/ CreateCriteriaInsert
    \/ \E id \in 1..(categories_id_seq + 1) : DeleteCategoryResults(id)
    \/ DeleteCategoryCriteria
    \/ DeleteCategoryCategory
    \/ /\ InsertsInFlight < MaxConcInserts
       /\ \E id \in 1..(documents_id_seq + 1) : ClassifyDocument(id)

SpecConc == Init /\ [][NextConc]_vars

(***************************************************************************)
(* classifyDocument statement by statement.  The handler awaits four       *)
(* statements: the select of the document, the select of the criteria with *)
(* their categories, the insert of the result and the select of the        *)
(* criteria of the best category.  pending.classifyDocument[k] is Null     *)
(* before call k starts; then it holds what the call has read so far, and  *)
(* in the end its response.  seen counts the results that were there when  *)
(* the call started.                                                       *)
(***************************************************************************)
Call(k) == pending.classifyDocument[k][1]

InFlight(document_id) ==
    [op |-> "classifyDocument", document_id |-> document_id, error |-> "inFlight",
     rows |-> <<>>, categoryScores |-> <<>>, result |-> Null, category |-> Null,
     matched_criteria_details |-> {}]

Failure(document_id, error) ==
    [op |-> "classifyDocument", document_id |-> document_id, error |-> error,
     rows |-> <<>>, categoryScores |-> <<>>, result |-> Null, category |-> Null,
     matched_criteria_details |-> {}]

(* statement 1 and the two checks on the document *)
ClassifySelectDocument(k, document_id) ==
    /\ pending.classifyDocument[k] = Null
    /\ \E found \in {SelectDocument(document_id)} :
          IF Len(found) = 0 \/ HasNoContent(found[1])
          THEN \E response \in {Failure(document_id,
                                   IF Len(found) = 0 THEN "DocumentNotFound"
                                   ELSE "NoContent")} :
                  /\ pending' = [pending EXCEPT !.classifyDocument[k] =
                                    Some([pc |-> "done",
                                          seen |-> Len(classification_results),
                                          response |-> response])]
                  /\ last' = response
          ELSE /\ pending' = [pending EXCEPT !.classifyDocument[k] =
                                 Some([pc |-> "criteria",
                                       seen |-> Len(classification_results),
                                       document_id |-> document_id,
                                       document |-> found[1]])]
               /\ last' = InFlight(document_id)
    /\ UNCHANGED <<tables, serials>>

(* ClassifySelectCriteria with a cache: once the first call has answered,
   the rows it fetched are used again in place of a query *)
ClassifySelectCriteriaCached(k) ==
    /\ pending.classifyDocument[k] # Null
    /\ Call(k).pc = "criteria"
    /\ \E rows \in (IF pending.classifyDocument[1] # Null /\ Call(1).pc = "done"
                   THEN {Call(1).response.rows}
                   ELSE Orderings(CriteriaJoinCategories)) :
       \E c \in {IF Len(rows) = 0
                 THEN [error |-> "NoCriteria", rows |-> <<>>, categoryScores |-> <<>>]
                 ELSE Classification(Call(k).document, rows)} :
          IF c.error # "none"
          THEN \E response \in {[Failure(Call(k).document_id, c.error) EXCEPT
                                    !.rows = c.rows,
                                    !.categoryScores = c.categoryScores]} :
                  /\ pending' = [pending EXCEPT !.classifyDocument[k] =
                                    Some([pc |-> "done", seen |-> Call(k).seen,
                                          response |-> response])]
                  /\ last' = response
          ELSE /\ pending' = [pending EXCEPT !.classifyDocument[k] =
                                 Some([pc |-> "insert", seen |-> Call(k).seen,
                                       document_id |-> Call(k).document_id,
                                       c |-> c])]
               /\ last' = InFlight(Call(k).document_id)
    /\ UNCHANGED <<tables, serials>>

(* statement 2, the scoring and the selection, up to the insert *)
ClassifySelectCriteria(k) ==
    /\ pending.classifyDocument[k] # Null
    /\ Call(k).pc = "criteria"
    /\ \E rows \in Orderings(CriteriaJoinCategories) :
       \E c \in {IF Len(rows) = 0
                 THEN [error |-> "NoCriteria", rows |-> <<>>, categoryScores |-> <<>>]
                 ELSE Classification(Call(k).document, rows)} :
          IF c.error # "none"
          THEN \E response \in {[Failure(Call(k).document_id, c.error) EXCEPT
                                    !.rows = c.rows,
                                    !.categoryScores = c.categoryScores]} :
                  /\ pending' = [pending EXCEPT !.classifyDocument[k] =
                                    Some([pc |-> "done", seen |-> Call(k).seen,
                                          response |-> response])]
                  /\ last' = response
          ELSE /\ pending' = [pending EXCEPT !.classifyDocument[k] =
                                 Some([pc |-> "insert", seen |-> Call(k).seen,
                                       document_id |-> Call(k).document_id,
                                       c |-> c])]
               /\ last' = InFlight(Call(k).document_id)
    /\ UNCHANGED <<tables, serials>>

(* ClassifyInsertResult that writes back the results the call saw when it
   started, with its own row added *)
ClassifyInsertResultFromSnapshot(k) ==
    /\ pending.classifyDocument[k] # Null
    /\ Call(k).pc = "insert"
    /\ \E row \in {NewResult(Call(k).document_id, Call(k).c)} :
          /\ classification_results' =
                 Append(SubSeq(classification_results, 1, Call(k).seen), row)
          /\ classification_results_id_seq' = classification_results_id_seq + 1
          /\ pending' = [pending EXCEPT !.classifyDocument[k] =
                            Some([pc |-> "details", seen |-> Call(k).seen,
                                  document_id |-> Call(k).document_id,
                                  c |-> Call(k).c, row |-> row])]
    /\ last' = InFlight(Call(k).document_id)
    /\ UNCHANGED <<documents, categories, criteria, documents_id_seq,
                   categories_id_seq, criteria_id_seq>>

(* statement 3: the insert of the result *)
ClassifyInsertResult(k) ==
    /\ pending.classifyDocument[k] # Null
    /\ Call(k).pc = "insert"
    /\ \E row \in {NewResult(Call(k).document_id, Call(k).c)} :
          /\ classification_results' = InsertResult(classification_results, row)
          /\ classification_results_id_seq' = classification_results_id_seq + 1
          /\ pending' = [pending EXCEPT !.classifyDocument[k] =
                            Some([pc |-> "details", seen |-> Call(k).seen,
                                  document_id |-> Call(k).document_id,
                                  c |-> Call(k).c, row |-> row])]
    /\ last' = InFlight(Call(k).document_id)
    /\ UNCHANGED <<documents, categories, criteria, documents_id_seq,
                   categories_id_seq, criteria_id_seq>>

(* statement 4 and the response *)
ClassifySelectDetails(k) ==
    /\ pending.classifyDocument[k] # Null
    /\ Call(k).pc = "details"
    /\ \E response \in
          {[op |-> "classifyDocument", document_id |-> Call(k).document_id,
            error |-> "none", rows |-> Call(k).c.rows,
            categoryScores |-> Call(k).c.categoryScores,
            result |-> Some(Call(k).row),
            category |-> Some(Call(k).c.categoryScores[Call(k).c.bestCategoryId].category),
            matched_criteria_details |->
                MatchedCriteriaDetails(Call(k).c.bestCategoryId,
                    Call(k).c.categoryScores[Call(k).c.bestCategoryId].matchedCriteria)]} :
          /\ pending' = [pending EXCEPT !.classifyDocument[k] =
                            Some([pc |-> "done", seen |-> Call(k).seen,
                                  response |-> response])]
          /\ last' = response
    /\ UNCHANGED <<tables, serials>>

NoCallStarted == \A k \in TwoCalls : pending.classifyDocument[k] = Null

(***************************************************************************)
(* Two classifyDocument calls side by side.  The tables are filled while   *)
(* no call has started; from then on only the two calls take steps.        *)
(***************************************************************************)
MaxTwoCallsInserts == 6

NextTwoCalls ==
    \/ /\ NoCallStarted
       /\ Inserts < MaxTwoCallsInserts
       /\ \E content \in {Some(RichText), Some(PoorText)} : UploadDocument(content)
    \/ /\ NoCallStarted
       /\ Inserts < MaxTwoCallsInserts
       /\ \E input \in CategoryInputs : CreateCategory(input)
    \/ /\ NoCallStarted
       /\ Inserts < MaxTwoCallsInserts
       /\ \E category_id \in 1..(categories_id_seq + 1), input \in CriteriaInputs :
             CreateCriteria(category_id, input)
    \/ /\ InsertsInFlight < MaxTwoCallsInserts
       /\ \E k \in TwoCalls, id \in 1..(documents_id_seq + 1) :
             ClassifySelectDocument(k, id)
    \/ \E k \in TwoCalls : ClassifySelectCriteria(k)
    \/ \E k \in TwoCalls : ClassifyInsertResult(k)
    \/ \E k \in TwoCalls : ClassifySelectDetails(k)

SpecTwoCalls == Init /\ [][NextTwoCalls]_vars

(***************************************************************************)
(* One classifyDocument call, statement by statement, among calls of the   *)
(* handlers that change criteria and categories.                           *)
(***************************************************************************)
MaxStepwiseInserts == 5

NextStepwise ==
    \/ /\ InsertsInFlight < MaxStepwiseInserts
       /\ \E content \in {Some(RichText)} : UploadDocument(content)
    \/ /\ InsertsInFlight < MaxStepwiseInserts
       /\ \E input \in CategoryInputs : CreateCategory(input)
    \/ /\ InsertsInFlight < MaxStepwiseInserts
       /\ \E category_id \in 1..(categories_id_seq + 1), input \in CriteriaInputs :
             CreateCriteria(category_id, input)
    \/ \E id \in 1..(criteria_id_seq + 1), input \in UpdateInputs :
          UpdateCriteria(id, input)
    \/ \E id \in 1..(criteria_id_seq + 1) : DeleteCriteria(id)
    \/ \E id \in 1..(categories_id_seq + 1) : DeleteCategory(id)
    \/ /\ InsertsInFlight < MaxStepwiseInserts
       /\ \E id \in 1..(documents_id_seq + 1) : ClassifySelectDocument(1, id)
    \/ ClassifySelectCriteria(1)
    \/ ClassifyInsertResult(1)
    \/ ClassifySelectDetails(1)

SpecStepwise == Init /\ [][NextStepwise]_vars

(***************************************************************************)
(* Weights at the bottom of the range: one document, criteria of weight 0  *)
(* and of weight 0.01 that all match it, in one category or several.       *)
(***************************************************************************)
MaxLowWeightInserts == 6

LowWeightInputs ==
    {[name |-> "n1", pattern |-> <<"b">>, weight |-> 0],
     [name |-> "n2", pattern |-> <<"A">>, weight |-> 10]}

NextLowWeights ==
    \/ /\ documents_id_seq = 0
       /\ UploadDocument(Some(RichText))
    \/ /\ Inserts < MaxLowWeightInserts
       /\ \E input \in CategoryInputs : CreateCategory(input)
    \/ /\ Inserts < MaxLowWeightInserts
       /\ \E category_id \in 1..(categories_id_seq + 1), input \in LowWeightInputs :
             CreateCriteria(category_id, input)
    \/ \E id \in 1..(criteria_id_seq + 1) : DeleteCriteria(id)
    \/ /\ Inserts < MaxLowWeightInserts
       /\ ClassifyDocument(1)

SpecLowWeights == Init /\ [][NextLowWeights]_vars

(***************************************************************************)
(* Documents with and without content among the catalogue operations: up   *)
(* to two uploads, of no content, of the empty string or of a text, and    *)
(* every category, criteria and classification operation.                  *)
(***************************************************************************)
MaxNoContentInserts == 6

NoContentInputs == {Null, Some(<<>>)}

NextNoContent ==
    \/ /\ Inserts < MaxNoContentInserts
       /\ documents_id_seq < 2
       /\ \E content \in NoContentInputs \cup {Some(RichText)} :
             UploadDocument(content)
    \/ /\ Inserts < MaxNoContentInserts
       /\ \E input \in CategoryInputs : CreateCategory(input)
    \/ /\ Inserts < MaxNoContentInserts
       /\ \E category_id \in 1..(categories_id_seq + 1), input \in CriteriaInputs :
             CreateCriteria(category_id, input)
    \/ \E id \in 1..(criteria_id_seq + 1), input \in UpdateInputs :
          UpdateCriteria(id, input)
    \/ \E id \in 1..(criteria_id_seq + 1) : DeleteCriteria(id)
    \/ \E id \in 1..(categories_id_seq + 1) : DeleteCategory(id)
    \/ /\ Inserts < MaxNoContentInserts
       /\ \E id \in 1..(documents_id_seq + 1) : ClassifyDocument(id)

SpecNoContent == Init /\ [][NextNoContent]_vars

(***************************************************************************)
(* A call and its resubmission: the second classifyDocument call starts    *)
(* once the first has answered, and the criteria and categories change at  *)
(* any time.  Criteria come with weight 0 and with patterns that do not    *)
(* match the document.                                                     *)
(***************************************************************************)
MaxResubmitInserts == 4

ResubmitCriteriaInputs ==
    {[name |-> "n1", pattern |-> <<"b">>, weight |-> 0],
     [name |-> "n1", pattern |-> <<"b">>, weight |-> 700],
     [name |-> "n2", pattern |-> <<"z">>, weight |-> 700]}

NextResubmit ==
    \/ /\ documents_id_seq = 0
       /\ UploadDocument(Some(RichText))
    \/ /\ InsertsInFlight < MaxResubmitInserts
       /\ \E input \in CategoryInputs : CreateCategory(input)
    \/ /\ InsertsInFlight < MaxResubmitInserts
       /\ \E category_id \in 1..(categories_id_seq + 1),
             input \in ResubmitCriteriaInputs :
             CreateCriteria(category_id, input)
    \/ \E id \in 1..(criteria_id_seq + 1), input \in UpdateInputs :
          UpdateCriteria(id, input)
    \/ \E id \in 1..(criteria_id_seq + 1) : DeleteCriteria(id)
    \/ \E id \in 1..(categories_id_seq + 1) : DeleteCategory(id)
    \/ /\ InsertsInFlight < MaxResubmitInserts
       /\ ClassifySelectDocument(1, 1)
    \/ /\ InsertsInFlight < MaxResubmitInserts
       /\ pending.classifyDocument[1] # Null
       /\ Call(1).pc = "done"
       /\ ClassifySelectDocument(2, 1)
    \/ \E k \in TwoCalls : ClassifySelectCriteria(k)
    \/ \E k \in TwoCalls : ClassifyInsertResult(k)
    \/ \E k \in TwoCalls : ClassifySelectDetails(k)

SpecResubmit == Init /\ [][NextResubmit]_vars

(***************************************************************************)
(* The category and criteria handlers on their own, with inputs that vary  *)
(* every field: descriptions given and omitted, weights with two and with  *)
(* three decimals, updates of no field, of each field and of all of them.  *)
(***************************************************************************)
MaxCatalogInserts == 3

CatalogCategoryInputs ==
    {[name |-> "Business", color |-> "#3B82F6", description |-> Null],
     [name |-> "Legal", color |-> "#EF4444", description |-> Some("contracts")]}

CatalogCriteriaInputs ==
    {[name |-> "n1", pattern |-> <<"A">>, weight |-> w] : w \in {125, 750}}

NoFields == [category_id |-> Null, name |-> Null, pattern |-> Null, weight |-> Null]
AllFields ==
    [category_id |-> Some(2), name |-> Some("n2"), pattern |-> Some(<<"b">>),
     weight |-> Some(335)]

(* no field, each field alone, all four *)
CatalogUpdateInputs ==
    {NoFields, AllFields}
       \cup {[NoFields EXCEPT ![f] = AllFields[f]] : f \in DOMAIN AllFields}

NoCategoryFields == [name |-> Null, color |-> Null, description |-> Null]
AllCategoryFields ==
    [name |-> Some("Finance"), color |-> Some("#10B981"),
     description |-> Some(Some("invoices"))]

(* no field, each field alone (the description also as null), all three *)
CatalogCategoryUpdates ==
    {NoCategoryFields, AllCategoryFields,
     [NoCategoryFields EXCEPT !.description = Some(Null)]}
       \cup {[NoCategoryFields EXCEPT ![f] = AllCategoryFields[f]] :
                f \in DOMAIN AllCategoryFields}

NextCatalog ==
    \/ /\ Inserts < MaxCatalogInserts
       /\ \E input \in CatalogCategoryInputs : CreateCategory(input)
    \/ /\ Inserts < MaxCatalogInserts
       /\ \E category_id \in 1..(categories_id_seq + 1),
             input \in CatalogCriteriaInputs :
             CreateCriteria(category_id, input)
    \/ \E id \in 1..(criteria_id_seq + 1), input \in CatalogUpdateInputs :
          UpdateCriteria(id, input)
    \/ \E id \in 1..(criteria_id_seq + 1) : DeleteCriteria(id)
    \/ \E id \in 1..(categories_id_seq + 1) : DeleteCategory(id)

SpecCatalog == Init /\ [][NextCatalog]_vars

(***************************************************************************)
(* The category handlers on their own: categories are created, updated     *)
(* field by field and deleted.                                             *)
(***************************************************************************)
MaxCategoryInserts == 2

NextCategories ==
    \/ /\ Inserts < MaxCategoryInserts
       /\ \E input \in CatalogCategoryInputs : CreateCategory(input)
    \/ \E id \in 1..(categories_id_seq + 1), input \in CatalogCategoryUpdates :
          UpdateCategory(id, input)
    \/ \E id \in 1..(categories_id_seq + 1) : DeleteCategory(id)

SpecCategories == Init /\ [][NextCategories]_vars

(***************************************************************************)
(* Properties.  They speak of the call that last records: a state whose    *)
(* last.op is "classifyDocument" is the state that call left behind.       *)
(***************************************************************************)
Classified == last.op = "classifyDocument"
Succeeded == Classified /\ last.error = "none"
Result == last.result[1]

RECURSIVE SumWeights(_)
SumWeights(matched) ==
    IF matched = <<>> THEN 0
    ELSE SumWeights(Front(matched)) + Last(matched).weight

(* the raw score of a scored category, in hundredths: the sum of the
   decimal weights of its matched criteria *)
RawScoreOf(categoryId) == SumWeights(last.categoryScores[categoryId].matchedCriteria)
RawScore == RawScoreOf(Result.category_id)

Min(a, b) == IF a <= b THEN a ELSE b

(* the best score of a successful call is never so close to a rounding
   boundary that the double division could move it across *)
NormalizationIsExact ==
    Succeeded => ~NearRoundingBoundary(last.categoryScores[Result.category_id].score)

(* C1: for every successful classifyDocument call, with rawScore the sum of
   the weights of the matched criteria of the winning category, rawScore >=
   2.0 gives level high, 1.0 <= rawScore < 2.0 gives medium and
   0 < rawScore < 1.0 gives low. *)
C1_LevelFollowsRawScore ==
    Succeeded =>
        /\ RawScore >= 200 => Result.confidence_level = "high"
        /\ (100 <= RawScore /\ RawScore < 200) => Result.confidence_level = "medium"
        /\ (0 < RawScore /\ RawScore < 100) => Result.confidence_level = "low"

(* C2, as stated: the confidence_score of every successful call equals
   min(rawScore / 3.0, 1.0). *)
C2_ScoreIsExactQuotient ==
    Succeeded => 300 * Result.confidence_score = 1000 * Min(RawScore, 300)

(* C2, amended: the confidence_score of every successful call is
   min(rawScore / 3.0, 1.0) rounded to three decimals (halves up), so it
   never exceeds 1.0 and is 1.0 for every rawScore >= 3.0. *)
C2_ScoreIsRoundedQuotient ==
    Succeeded =>
        /\ Result.confidence_score = (2000 * Min(RawScore, 300) + 300) \div 600
        /\ Result.confidence_score <= 1000
        /\ RawScore >= 300 => Result.confidence_score = 1000

C2_Witness ==
    /\ Succeeded
    /\ RawScore > 300
    /\ Result.confidence_score = 1000

(* the document the last call named, when it exists, and its text as the
   handler scans it *)
Doc == CHOOSE d \in {documents[i] : i \in 1..Len(documents)} : d.id = last.document_id
DocExists == last.document_id \in Ids(documents)
DocText == ToLowerCase(Doc.content[1])

RowCategory(i) == last.rows[i].categories.id
ScoredCategories == DOMAIN last.categoryScores

(* the category of S whose first row comes earliest in the fetched rows *)
FirstSeen(S) ==
    RowCategory(CHOOSE i \in 1..Len(last.rows) :
                    /\ RowCategory(i) \in S
                    /\ \A j \in 1..(i - 1) : RowCategory(j) \notin S)

(* the categories that share the greatest raw score, when it is positive *)
TiedRaw ==
    { k \in ScoredCategories :
        /\ RawScoreOf(k) > 0
        /\ \A j \in ScoredCategories : RawScoreOf(j) <= RawScoreOf(k) }

(* the categories that share the greatest score the handler accumulated *)
TiedComputed ==
    { k \in ScoredCategories :
        /\ last.categoryScores[k].score # Zero
        /\ \A j \in ScoredCategories :
              ~FloatGt(last.categoryScores[j].score, last.categoryScores[k].score) }

(* C3, as stated: when two or more categories share the greatest raw score
   (> 0), the call selects the tied category seen first in the order of the
   fetched rows, whatever the ids of the tied categories. *)
C3_FirstSeenWins ==
    (Succeeded /\ Cardinality(TiedRaw) >= 2) =>
        Result.category_id = FirstSeen(TiedRaw)

(* C3, amended: when two or more categories share the greatest accumulated
   score (> 0), the call selects the tied category with the smallest id,
   whatever the order of the fetched rows. *)
C3_SmallestIdWins ==
    (Succeeded /\ Cardinality(TiedComputed) >= 2) =>
        /\ Result.category_id \in TiedComputed
        /\ \A k \in TiedComputed : Result.category_id <= k

C3_Witness ==
    /\ Succeeded
    /\ Cardinality(TiedComputed) >= 2
    /\ FirstSeen(TiedComputed) # Result.category_id

(* the fetched rows of the winning category that match the document, in
   the order they were fetched *)
WinningMatches ==
    SelectSeq(last.rows,
              LAMBDA r : /\ r.categories.id = Result.category_id
                         /\ IsMatch(r.criteria.pattern, DocText))

NamesOf(rows) == [i \in 1..Len(rows) |-> rows[i].criteria.name]

NoDuplicates(s) == \A i, j \in 1..Len(s) : i # j => s[i] # s[j]

(* C4, as stated: matched_criteria of every result lists only criteria of
   the winning category that matched the document, in the order they were
   fetched, and contains no duplicate entries. *)
C4_NoDuplicateEntries ==
    Succeeded =>
        /\ Result.matched_criteria = NamesOf(WinningMatches)
        /\ NoDuplicates(Result.matched_criteria)

(* C4, amended: matched_criteria of every result holds one entry, the name,
   for each fetched criterion of the winning category that matched the
   document, in the order they were fetched; no criterion is listed twice,
   and two entries are equal only when two criteria share a name. *)
C4_OneEntryPerMatch ==
    Succeeded =>
        /\ Result.matched_criteria = NamesOf(WinningMatches)
        /\ NoDuplicates([i \in 1..Len(WinningMatches) |-> WinningMatches[i].criteria.id])

C4_Witness ==
    /\ Succeeded
    /\ Len(Result.matched_criteria) = 2
    /\ Result.matched_criteria[1] # Result.matched_criteria[2]
    /\ last.rows[1].criteria.id > last.rows[2].criteria.id

(* C5: for an existing document with non-empty content and a non-empty
   fetched criteria set, if no criterion of any category matches the text
   the call fails with the no-match error and returns no result. *)
C5_NoMatchFails ==
    ( /\ Classified
      /\ DocExists
      /\ Doc.content # Null
      /\ Doc.content # Some(<<>>)
      /\ CriteriaJoinCategories # <<>>
      /\ \A i \in 1..Len(CriteriaJoinCategories) :
            ~IsMatch(CriteriaJoinCategories[i].criteria.pattern, DocText) )
    => (last.error = "NoMatch" /\ last.result = Null)

C5_Witness ==
    /\ Classified
    /\ last.error = "NoMatch"
    /\ Len(last.rows) >= 2
    /\ Doc.content = Some(PoorText)

(* C6: a call on a document whose content is the empty string or null
   fails with the no-content error before criteria are fetched or scored,
   whatever the criteria table holds. *)
C6_NoContentFirst ==
    (Classified /\ DocExists /\ (Doc.content = Null \/ Doc.content = Some(<<>>)))
    => /\ last.error = "NoContent"
       /\ last.rows = <<>>
       /\ last.categoryScores = <<>>
       /\ last.result = Null

C6_Witness ==
    /\ Classified
    /\ last.error = "NoContent"
    /\ Doc.content = Null
    /\ CriteriaJoinCategories # <<>>

(* C7: a call with a document_id that matches no document fails with the
   document-not-found error, whatever criteria, categories and results
   hold; no other check comes first. *)
C7_DocumentNotFoundFirst ==
    (Classified /\ ~DocExists)
    => /\ last.error = "DocumentNotFound"
       /\ last.rows = <<>>
       /\ last.result = Null

C7_Witness ==
    /\ Classified
    /\ last.error = "DocumentNotFound"
    /\ documents # <<>>
    /\ CriteriaJoinCategories # <<>>

(* C9: every successful classifyDocument call appends exactly one row to
   classification_results and leaves documents, categories, criteria and
   the result rows that were there unchanged. *)
C9_AppendsOneRow ==
    [][ (last'.op = "classifyDocument" /\ last'.error = "none") =>
            /\ documents' = documents
            /\ categories' = categories
            /\ criteria' = criteria
            /\ Len(classification_results') = Len(classification_results) + 1
            /\ SubSeq(classification_results', 1, Len(classification_results))
                   = classification_results
            /\ Last(classification_results') = last'.result[1] ]_vars

C9_Witness ==
    /\ Succeeded
    /\ Len(classification_results) >= 2
    /\ Last(classification_results) = Result
    /\ classification_results[1].document_id = Result.document_id

(* what the handler's test of a pattern amounts to *)
ExpectedMatch(pattern) ==
    IF RegExpCompiles(pattern)
    THEN RegExpTest(pattern, DocText)
    ELSE Includes(DocText, ToLowerCase(pattern))

MatchedIds(categoryId) ==
    { last.categoryScores[categoryId].matchedCriteria[i].id :
        i \in 1..Len(last.categoryScores[categoryId].matchedCriteria) }

(* C10: a criterion whose pattern is not a valid regular expression never
   makes the call fail: it matches iff the lower-cased text contains the
   lower-cased pattern, and every other criterion is evaluated as usual. *)
C10_FallbackToSubstring ==
    (Classified /\ last.rows # <<>>) =>
        /\ last.error \in {"none", "NoMatch"}
        /\ \A i \in 1..Len(last.rows) :
              (last.rows[i].criteria.id \in MatchedIds(RowCategory(i)))
                  <=> ExpectedMatch(last.rows[i].criteria.pattern)
        /\ (\E i \in 1..Len(last.rows) :
               /\ ExpectedMatch(last.rows[i].criteria.pattern)
               /\ last.rows[i].criteria.weight > 0) => last.error = "none"

C10_Witness ==
    /\ Succeeded
    /\ \E i, j \in 1..Len(last.rows) :
          /\ ~RegExpCompiles(last.rows[i].criteria.pattern)
          /\ last.rows[i].criteria.id \in MatchedIds(RowCategory(i))
          /\ RegExpCompiles(last.rows[j].criteria.pattern)
          /\ last.rows[j].criteria.id \in MatchedIds(RowCategory(j))

(* no call is between two of its statements *)
Quiescent == pending.createCriteria = Null /\ pending.deleteCategory = Null

(* C8: for an existing document with non-empty content, classifyDocument
   fails with the no-criteria error exactly when the criteria table is
   empty. *)
C8_NoCriteriaIffTableEmpty ==
    ( /\ Classified
      /\ Quiescent
      /\ DocExists
      /\ Doc.content # Null
      /\ Doc.content # Some(<<>>) )
    => (last.error = "NoCriteria" <=> criteria = <<>>)

(* what a call lets its caller see, the new id left out *)
OutcomeOf(l) ==
    IF l.error # "none" THEN <<l.error>>
    ELSE <<l.error, l.result[1].category_id, l.result[1].confidence_level,
           l.result[1].confidence_score, l.result[1].matched_criteria>>

(* C11: two classifyDocument calls on the same document, with the same
   tables read in the same order, have the same outcome (the same error,
   or the same category_id, confidence_level, confidence_score and
   matched_criteria), however many results are recorded already. *)
C11_SameInputsSameOutcome ==
    [][ ( /\ last.op = "classifyDocument"
          /\ last'.op = "classifyDocument"
          /\ last'.document_id = last.document_id
          /\ last'.rows = last.rows )
        => OutcomeOf(last') = OutcomeOf(last) ]_vars

C11_Witness ==
    /\ Succeeded
    /\ Len(last.rows) >= 2
    /\ Len(classification_results) >= 2
    /\ classification_results[Len(classification_results) - 1].document_id
           = Result.document_id
    /\ classification_results[Len(classification_results) - 1].matched_criteria
           = Result.matched_criteria
    /\ classification_results[Len(classification_results) - 1].id # Result.id

(* the response of call k, once it has one *)
Done(k) == pending.classifyDocument[k] # Null /\ Call(k).pc = "done"
Response(k) == Call(k).response

(* what a call run alone on the rows call k fetched lets its caller see *)
AloneOutcome(k) ==
    OutcomeOf([error |-> "none",
               result |-> Some(NewResult(Response(k).document_id,
                              ClassifyOutcome(SelectDocument(Response(k).document_id),
                                              Response(k).rows)))])

(* C12, as stated: when two classifyDocument calls for the same document
   run side by side, their statements interleaved in any order and criteria
   and categories left alone, each successful call appends its own row: two
   new rows with distinct ids, both with the same category_id,
   confidence_level, confidence_score and matched_criteria. *)
C12_TwoCallsSameValues ==
    ( /\ \A k \in TwoCalls : Done(k) /\ Response(k).error = "none"
      /\ Response(1).document_id = Response(2).document_id )
    => /\ Response(1).result[1].id # Response(2).result[1].id
       /\ Len(classification_results) = Min(Call(1).seen, Call(2).seen) + 2
       /\ OutcomeOf(Response(1)) = OutcomeOf(Response(2))

(* C12, amended: each successful call appends its own row, two new rows
   with distinct ids, each with the category_id, confidence_level,
   confidence_score and matched_criteria of a call run alone on the rows it
   fetched; the two rows carry the same values when both calls fetched the
   criteria rows in the same order. *)
C12_TwoCallsTwoRows ==
    ( /\ \A k \in TwoCalls : Done(k) /\ Response(k).error = "none"
      /\ Response(1).document_id = Response(2).document_id )
    => /\ Response(1).result[1].id # Response(2).result[1].id
       /\ Len(classification_results) = Min(Call(1).seen, Call(2).seen) + 2
       /\ { classification_results[i] :
               i \in (Len(classification_results) - 1)..Len(classification_results) }
             = { Response(1).result[1], Response(2).result[1] }
       /\ \A k \in TwoCalls : OutcomeOf(Response(k)) = AloneOutcome(k)
       /\ Response(1).rows = Response(2).rows
             => OutcomeOf(Response(1)) = OutcomeOf(Response(2))

C12_Witness ==
    /\ \A k \in TwoCalls : Done(k) /\ Response(k).error = "none"
    /\ Response(1).document_id = Response(2).document_id
    /\ Call(1).seen = Call(2).seen
    /\ Len(Response(1).rows) >= 2
    /\ Response(1).rows = Response(2).rows
    /\ Response(2).result[1].id < Response(1).result[1].id

(* C13: in every successful response matched_criteria_details holds exactly
   one criterion record for every matched criterion of the winning category
   and nothing else: as many entries as result.matched_criteria, with the
   same names, also when criteria or categories change between the call's
   first and last read of the criteria. *)
C13_DetailsCoverMatched ==
    Succeeded =>
        /\ Cardinality(last.matched_criteria_details) = Len(Result.matched_criteria)
        /\ \A i \in 1..Len(Result.matched_criteria) :
              \E d \in last.matched_criteria_details :
                  /\ d.id = last.categoryScores[Result.category_id].matchedCriteria[i].id
                  /\ d.name = Result.matched_criteria[i]
        /\ \A d \in last.matched_criteria_details : d.id \in MatchedIds(Result.category_id)

(* C14, as stated: once a result row exists no operation changes or removes
   it: every step keeps the rows that were there, in place. *)
C14_NothingRemoved ==
    [][ /\ Len(classification_results') >= Len(classification_results)
        /\ SubSeq(classification_results', 1, Len(classification_results))
               = classification_results ]_vars

(* the result rows a step has to keep: all of them, but for those of the
   category a deleteCategory call deletes *)
KeptResults ==
    IF last'.op = "deleteCategory"
    THEN SelectSeq(classification_results, LAMBDA r : r.category_id # last'.id)
    ELSE classification_results

(* C14, amended: no operation changes a field of a result row, and the only
   rows ever removed are those of the category a deleteCategory call
   deletes; every successful classifyDocument call adds one row for its
   document, so n successful calls for a document leave n rows for it as
   long as no category they chose is deleted. *)
C14_OnlyDeleteCategoryRemoves ==
    [][ /\ Len(classification_results') >= Len(KeptResults)
        /\ SubSeq(classification_results', 1, Len(KeptResults)) = KeptResults
        /\ IF last'.op = "classifyDocument" /\ last'.error = "none"
           THEN /\ Len(classification_results') = Len(classification_results) + 1
                /\ Last(classification_results').document_id = last'.document_id
           ELSE Len(classification_results') = Len(KeptResults) ]_vars

C14_Witness ==
    /\ last.op = "deleteCategory"
    /\ last.result
    /\ classification_results # <<>>
    /\ classification_results_id_seq > Len(classification_results)
    /\ \A i \in 1..Len(classification_results) :
          classification_results[i].category_id # last.id

(* the stored rows that carry the id of the returned result *)
StoredResults ==
    SelectSeq(classification_results, LAMBDA r : r.id = Result.id)

(* C15: after a successful classifyDocument call the table holds exactly
   one row with the returned id, whose document_id, category_id,
   confidence_level, confidence_score, classification_method ('Pattern
   Matching') and matched_criteria are those of the response; the result
   names the requested document and the id of the returned category. *)
C15_StoredEqualsReturned ==
    Succeeded =>
        /\ Len(StoredResults) = 1
        /\ StoredResults[1].document_id = Result.document_id
        /\ StoredResults[1].category_id = Result.category_id
        /\ StoredResults[1].confidence_level = Result.confidence_level
        /\ StoredResults[1].confidence_score = Result.confidence_score
        /\ StoredResults[1].classification_method = "Pattern Matching"
        /\ Result.classification_method = "Pattern Matching"
        /\ StoredResults[1].matched_criteria = Result.matched_criteria
        /\ Result.document_id = last.document_id
        /\ Result.category_id = last.category[1].id

C15_Witness ==
    /\ Succeeded
    /\ Len(StoredResults) = 1
    /\ Len(last.rows) >= 2
    /\ last.rows[1].categories.id # Result.category_id
    /\ last.category[1].id = Result.category_id

(* C16: after deleteCategory(c) no category has id c and no criterion and
   no result has category_id c; documents, the other categories and the
   criteria and results of other categories are unchanged; the call returns
   true iff a category with id c existed. *)
C16_DeleteCategoryCascades ==
    [][ last'.op = "deleteCategory" =>
          /\ last'.id \notin Ids(categories')
          /\ \A i \in 1..Len(criteria') : criteria'[i].category_id # last'.id
          /\ \A i \in 1..Len(classification_results') :
                classification_results'[i].category_id # last'.id
          /\ documents' = documents
          /\ categories' = SelectSeq(categories, LAMBDA c : c.id # last'.id)
          /\ criteria' = SelectSeq(criteria, LAMBDA c : c.category_id # last'.id)
          /\ classification_results' =
                 SelectSeq(classification_results,
                           LAMBDA r : r.category_id # last'.id)
          /\ last'.result = (last'.id \in Ids(categories)) ]_vars

C16_Witness ==
    /\ last.op = "deleteCategory"
    /\ last.result
    /\ categories # <<>>
    /\ criteria # <<>>
    /\ Len(classification_results) < classification_results_id_seq
    /\ Len(criteria) < criteria_id_seq

(* C17: deleteCriteria(id) removes exactly the criterion with that id and
   leaves every other criterion and all categories, documents and
   classification results unchanged; it returns true iff a criterion with
   that id existed, and when it returns false the state is unchanged. *)
C17_DeleteCriteriaRemovesOne ==
    [][ last'.op = "deleteCriteria" =>
          /\ Ids(criteria') = Ids(criteria) \ {last'.id}
          /\ criteria' = SelectSeq(criteria, LAMBDA c : c.id # last'.id)
          /\ documents' = documents
          /\ categories' = categories
          /\ classification_results' = classification_results
          /\ last'.result = (last'.id \in Ids(criteria))
          /\ (~last'.result => tables' = tables) ]_vars

C17_Witness ==
    /\ last.op = "deleteCriteria"
    /\ last.result
    /\ criteria # <<>>
    /\ classification_results # <<>>

(* C18: createCriteria with a category_id that matches no category fails
   with the category-does-not-exist error and inserts nothing; with an
   existing category it inserts exactly one criteria row, under a new id,
   that carries the given category_id, name, pattern and weight.  The stored
   weight is in hundredths and the given one in thousandths. *)
C18_CreateCriteriaStoresGiven ==
    [][ \A category_id \in 1..(categories_id_seq + 1),
           input \in CatalogCriteriaInputs :
          CreateCriteria(category_id, input) =>
             IF category_id \notin Ids(categories)
             THEN /\ last'.error = "CategoryNotFound"
                  /\ tables' = tables
             ELSE /\ last'.error = "none"
                  /\ Len(criteria') = Len(criteria) + 1
                  /\ Front(criteria') = criteria
                  /\ Last(criteria').id \notin Ids(criteria)
                  /\ Last(criteria').category_id = category_id
                  /\ Last(criteria').name = input.name
                  /\ Last(criteria').pattern = input.pattern
                  /\ Last(criteria').weight * 10 = input.weight
                  /\ <<documents, categories, classification_results>>' =
                        <<documents, categories, classification_results>> ]_vars

(* the value a field of the updated criterion must have: the given one when
   the input provides the field, the old one otherwise *)
FieldAfter(old, given) == IF given = Null THEN old ELSE given[1]

(* the ids the updateCriteria call of a step may have been given: the id
   of the row it returns, any id when it returns none, none when the step
   is not an updateCriteria call *)
UpdatedIds ==
    IF last'.op # "updateCriteria" THEN {}
    ELSE IF last'.result # Null THEN {last'.result[1].id}
    ELSE 1..(criteria_id_seq + 1)

(* C19: updateCriteria changes exactly the fields its input provides
   (category_id, name, pattern, weight) in the criterion with the given id
   and leaves its other fields, its id and created_at and every other row
   unchanged; when the criterion does not exist, or the new category_id
   matches no category, it fails with a not-found error and changes
   nothing.  A provided weight is stored to two decimals. *)
C19_UpdateChangesGivenFields ==
    [][ \A id \in UpdatedIds, input \in CatalogUpdateInputs :
          UpdateCriteria(id, input) =>
             IF \/ id \notin Ids(criteria)
                \/ input.category_id # Null /\ input.category_id[1] \notin Ids(categories)
             THEN /\ last'.error \in {"CriteriaNotFound", "CategoryNotFound"}
                  /\ tables' = tables
             ELSE /\ Len(criteria') = Len(criteria)
                  /\ \A i \in 1..Len(criteria) :
                        IF criteria[i].id # id
                        THEN criteria'[i] = criteria[i]
                        ELSE /\ criteria'[i].id = id
                             /\ criteria'[i].created_at = criteria[i].created_at
                             /\ criteria'[i].category_id =
                                   FieldAfter(criteria[i].category_id, input.category_id)
                             /\ criteria'[i].name =
                                   FieldAfter(criteria[i].name, input.name)
                             /\ criteria'[i].pattern =
                                   FieldAfter(criteria[i].pattern, input.pattern)
                             /\ IF input.weight = Null
                                THEN criteria'[i].weight = criteria[i].weight
                                ELSE /\ criteria'[i].weight * 10 - input.weight[1] <= 5
                                     /\ input.weight[1] - criteria'[i].weight * 10 <= 5
                  /\ <<documents, categories, classification_results>>' =
                        <<documents, categories, classification_results>> ]_vars

C19_Witness ==
    /\ last.op = "updateCriteria"
    /\ last.error = "none"
    /\ last.result[1].name = "n2"
    /\ last.result[1].pattern = <<"A">>
    /\ last.result[1].weight = 34
    /\ last.result[1].created_at < Now - 1
    /\ Len(criteria) = 2

(* C20: createCategory inserts exactly one row into categories, with the
   given name, color and description (null when none is given), and returns
   it with an id greater than 0; the id is one no earlier call has returned,
   so two calls return different ids, and the categories already present
   stay in the table next to the new one. *)
C20_CreateCategoryInsertsOne ==
    [][ \A input \in CatalogCategoryInputs :
          CreateCategory(input) =>
             /\ Len(categories') = Len(categories) + 1
             /\ Front(categories') = categories
             /\ Last(categories') = last'.result
             /\ last'.result.name = input.name
             /\ last'.result.color = input.color
             /\ last'.result.description = input.description
             /\ last'.result.id > 0
             /\ last'.result.id > categories_id_seq
             /\ last'.result.id <= categories_id_seq'
             /\ last'.result.id \notin Ids(categories)
             /\ Cardinality(Ids(categories')) = Len(categories')
             /\ <<documents, criteria, classification_results>>' =
                   <<documents, criteria, classification_results>> ]_vars

C20_Witness ==
    /\ last.op = "createCategory"
    /\ Len(categories) >= 2
    /\ last.result.description # Null
    /\ \E i \in 1..Len(categories) : categories[i].description = Null
    /\ \E i \in 1..Len(categories) : categories[i] = last.result

(* the ids the updateCategory call of a step may have been given *)
UpdatedCategoryIds ==
    IF last'.op # "updateCategory" THEN {}
    ELSE IF last'.result # Null THEN {last'.result[1].id}
    ELSE 1..(categories_id_seq + 1)

(* C21: updateCategory changes only the fields its input provides (name,
   color, description) in the stored category with the given id: absent
   fields keep their stored values, created_at is preserved, an input with
   only an id returns the stored category unchanged, the change is in the
   categories table afterwards, and an id that matches no category fails
   with the category-not-found error and changes nothing. *)
C21_UpdateCategoryChangesGivenFields ==
    [][ \A id \in UpdatedCategoryIds, input \in CatalogCategoryUpdates :
          UpdateCategory(id, input) =>
             IF id \notin Ids(categories)
             THEN /\ last'.error = "CategoryNotFound"
                  /\ tables' = tables
             ELSE /\ last'.error = "none"
                  /\ Len(categories') = Len(categories)
                  /\ \A i \in 1..Len(categories) :
                        IF categories[i].id # id
                        THEN categories'[i] = categories[i]
                        ELSE /\ categories'[i] = last'.result[1]
                             /\ categories'[i].id = id
                             /\ categories'[i].created_at = categories[i].created_at
                             /\ categories'[i].name =
                                   FieldAfter(categories[i].name, input.name)
                             /\ categories'[i].color =
                                   FieldAfter(categories[i].color, input.color)
                             /\ categories'[i].description =
                                   FieldAfter(categories[i].description, input.description)
                             /\ (input = NoCategoryFields =>
                                    last'.result[1] = categories[i])
                  /\ <<documents, criteria, classification_results>>' =
                        <<documents, criteria, classification_results>> ]_vars

C21_Witness ==
    /\ last.op = "updateCategory"
    /\ last.error = "none"
    /\ last.result[1].name = "Finance"
    /\ last.result[1].color = "#EF4444"
    /\ last.result[1].description = Null
    /\ last.result[1].created_at < categories_id_seq - 1
    /\ \E i \in 1..Len(categories) : categories[i] = last.result[1]

(* the raw score of a category, in hundredths, taken from the rows the call
   fetched: the sum of the weights of the rows of the category whose
   pattern matches the document *)
RECURSIVE RawFromRows(_, _)
RawFromRows(categoryId, n) ==
    IF n = 0 THEN 0
    ELSE RawFromRows(categoryId, n - 1)
           + (IF /\ RowCategory(n) = categoryId
                 /\ ExpectedMatch(last.rows[n].criteria.pattern)
              THEN last.rows[n].criteria.weight ELSE 0)

RawOfCategory(categoryId) == RawFromRows(categoryId, Len(last.rows))
FetchedCategories == {RowCategory(i) : i \in 1..Len(last.rows)}

(* C22: whenever classifyDocument succeeds, the returned category has a raw
   score strictly greater than 0 and no other category has a strictly
   greater raw score, a category's raw score being the sum of the weights
   of its criteria that match the document. *)
C22_WinnerHasGreatestRawScore ==
    Succeeded =>
        /\ last.category[1].id = Result.category_id
        /\ Result.category_id \in FetchedCategories
        /\ RawOfCategory(Result.category_id) > 0
        /\ \A k \in FetchedCategories :
              RawOfCategory(k) <= RawOfCategory(Result.category_id)

C22_Witness ==
    /\ Succeeded
    /\ \E k \in FetchedCategories :
          /\ k < Result.category_id
          /\ 0 < RawOfCategory(k)
          /\ RawOfCategory(k) < RawOfCategory(Result.category_id)

(* call k takes its criteria step: it is at the criteria query and leaves it *)
ReadsCriteria(k) ==
    /\ pending.classifyDocument[k] # Null
    /\ Call(k).pc = "criteria"
    /\ pending'.classifyDocument[k][1].pc # "criteria"

(* the rows call k has after its criteria step *)
RowsRead(k) ==
    IF pending'.classifyDocument[k][1].pc = "insert"
    THEN pending'.classifyDocument[k][1].c.rows
    ELSE pending'.classifyDocument[k][1].response.rows

(* the criteria of existing categories, each with its category, as the
   tables hold them *)
StoredRows ==
    { [criteria |-> criteria[i], categories |-> categories[j]] :
        i \in 1..Len(criteria), j \in 1..Len(categories) }
      \cap { r \in [criteria : {criteria[i] : i \in 1..Len(criteria)},
                     categories : {categories[j] : j \in 1..Len(categories)}] :
                r.criteria.category_id = r.categories.id }

MatchesText(pattern, text) ==
    IF RegExpCompiles(pattern)
    THEN RegExpTest(pattern, ToLowerCase(text))
    ELSE Includes(ToLowerCase(text), ToLowerCase(pattern))

FirstCallFailed ==
    /\ Done(1)
    /\ Response(1).error \in {"NoCriteria", "NoMatch"}

(* the stored criteria the first call did not fetch and that match the
   document of the second call *)
NewMatchingCriteria ==
    { r \in StoredRows :
        /\ \A i \in 1..Len(Response(1).rows) :
              Response(1).rows[i].criteria.id # r.criteria.id
        /\ MatchesText(r.criteria.pattern, Call(2).document.content[1]) }

(* C23, as stated: classifyDocument keeps no cached view of the criteria,
   so a call that failed with the no-criteria or no-match error succeeds
   when it is resubmitted after a criterion matching the document has been
   created. *)
C23_ResubmissionSucceeds ==
    [][ (ReadsCriteria(2) /\ FirstCallFailed /\ NewMatchingCriteria # {})
          => pending'.classifyDocument[2][1].pc = "insert" ]_vars

(* C23, amended: every call computes its scores from the criteria as the
   tables hold them when it queries them, so a call that failed with the
   no-criteria or no-match error succeeds when it is resubmitted after a
   criterion matching the document has been created with a weight that is
   greater than 0 as stored. *)
C23_ResubmissionReadsFresh ==
    [][ /\ \A k \in TwoCalls :
              ReadsCriteria(k) =>
                 /\ Len(RowsRead(k)) = Cardinality(StoredRows)
                 /\ {RowsRead(k)[i] : i \in 1..Len(RowsRead(k))} = StoredRows
        /\ ( /\ ReadsCriteria(2)
             /\ FirstCallFailed
             /\ \E r \in NewMatchingCriteria : r.criteria.weight > 0 )
              => pending'.classifyDocument[2][1].pc = "insert" ]_vars

C23_Witness ==
    /\ Done(1)
    /\ Done(2)
    /\ Response(1).error \in {"NoCriteria", "NoMatch"}
    /\ Response(2).error = "none"
    /\ \E i \in 1..Len(Response(2).rows) :
          \A j \in 1..Len(Response(1).rows) :
             Response(1).rows[j].criteria.id # Response(2).rows[i].criteria.id

(* C24: the confidence mapping is never applied to a raw score of 0: the
   selection ignores zero and absent category scores, so a category whose
   matching criteria all have weight 0 is never selected, and every result
   classifyDocument creates has a confidence_score greater than 0 and a
   matched_criteria list that is not empty. *)
C24_ZeroScoresIgnored ==
    /\ Classified =>
          \A k \in FetchedCategories :
             RawOfCategory(k) = 0 =>
                /\ last.result # Null => Result.category_id # k
                /\ last.category # Null => last.category[1].id # k
    /\ (Classified /\ last.rows # <<>>
           /\ \A k \in FetchedCategories : RawOfCategory(k) = 0)
          => last.error = "NoMatch"
    /\ Succeeded =>
          /\ Result.confidence_score > 0
          /\ Result.confidence_level \in {"low", "medium", "high"}
          /\ Result.matched_criteria # <<>>
    /\ \A i \in 1..Len(classification_results) :
          /\ classification_results[i].confidence_score > 0
          /\ classification_results[i].matched_criteria # <<>>

C24_Witness ==
    /\ Succeeded
    /\ Result.confidence_score = 3
    /\ \E k \in FetchedCategories :
          /\ RawOfCategory(k) = 0
          /\ \E i \in 1..Len(last.rows) :
                /\ RowCategory(i) = k
                /\ ExpectedMatch(last.rows[i].criteria.pattern)

(* the fetched rows of a category that match the document, in the order
   they were fetched, as the entries of a matched list *)
MatchingRowsOf(categoryId) ==
    SelectSeq(last.rows,
              LAMBDA r : /\ r.categories.id = categoryId
                         /\ ExpectedMatch(r.criteria.pattern))

MatchedListOf(categoryId) ==
    [i \in 1..Len(MatchingRowsOf(categoryId)) |->
        [id |-> MatchingRowsOf(categoryId)[i].criteria.id,
         name |-> MatchingRowsOf(categoryId)[i].criteria.name,
         pattern |-> MatchingRowsOf(categoryId)[i].criteria.pattern,
         weight |-> MatchingRowsOf(categoryId)[i].criteria.weight]]

(* the double sum of the weights of a matched list, added in its order *)
RECURSIVE FloatSum(_)
FloatSum(matched) ==
    IF matched = <<>> THEN Zero
    ELSE FloatAdd(FloatSum(Front(matched)), ParseFloat(Last(matched).weight))

(* C25: category scores accumulate independently: the raw score and the
   matched list computed for a category are those of the document text and
   of the category's own fetched criteria alone, whatever criteria the
   other categories have. *)
C25_ScoresPerCategory ==
    (Classified /\ last.rows # <<>>) =>
        /\ ScoredCategories = FetchedCategories
        /\ \A k \in ScoredCategories :
              /\ last.categoryScores[k].matchedCriteria = MatchedListOf(k)
              /\ last.categoryScores[k].score = FloatSum(MatchedListOf(k))
              /\ RawScoreOf(k) = RawOfCategory(k)

C25_Witness ==
    /\ Succeeded
    /\ Cardinality(ScoredCategories) >= 2
    /\ \A k \in ScoredCategories : last.categoryScores[k].matchedCriteria # <<>>

(* C26: every classifyDocument call that fails (document not found, no
   content, no criteria, no match) leaves the documents, categories,
   criteria and classification_results tables exactly as they were; no
   result row is written, and no id is taken, on any error path. *)
C26_FailureChangesNothing ==
    [][ (last'.op = "classifyDocument" /\ last'.error # "none") =>
          /\ last'.error \in {"DocumentNotFound", "NoContent", "NoCriteria", "NoMatch"}
          /\ last'.result = Null
          /\ documents' = documents
          /\ categories' = categories
          /\ criteria' = criteria
          /\ classification_results' = classification_results
          /\ serials' = serials ]_vars

C26_Witness ==
    /\ Classified
    /\ last.error \in {"NoCriteria", "NoMatch"}
    /\ \E i \in 1..Len(classification_results) :
          classification_results[i].document_id = last.document_id

(* C27: under the interleaving of classifyDocument with the statements of
   deleteCategory, whenever no call is in flight every row of
   classification_results names a category that is in the categories
   table *)
C27_ResultsReferExistingCategories ==
    Quiescent =>
        \A i \in 1..Len(classification_results) :
            classification_results[i].category_id \in Ids(categories)

(* C28: under the interleaving of the statements of createCriteria and
   deleteCategory, whenever no call is in flight every row of criteria
   names a category that is in the categories table *)
C28_CriteriaReferExistingCategories ==
    Quiescent =>
        \A i \in 1..Len(criteria) : criteria[i].category_id \in Ids(categories)

(* the order of the confidence levels *)
LevelRank(level) ==
    IF level = "high" THEN 2 ELSE IF level = "medium" THEN 1 ELSE 0

(* C29: in every stored result the level and the score agree, the
   thresholds 1/3 and 2/3 being taken to the three decimals of the
   column (0.333 and 0.667): high implies confidence_score >= 0.667,
   medium implies 0.333 <= confidence_score <= 0.667, low implies
   0 < confidence_score <= 0.333; and of two results the one with the
   higher confidence_score never has the lower level. *)
C29_LevelAndScoreAgree ==
    /\ \A i \in 1..Len(classification_results) :
          \E r \in {classification_results[i]} :
             /\ r.confidence_level = "high" => r.confidence_score >= 667
             /\ r.confidence_level = "medium" =>
                    (333 <= r.confidence_score /\ r.confidence_score <= 667)
             /\ r.confidence_level = "low" =>
                    (0 < r.confidence_score /\ r.confidence_score <= 333)
    /\ \A i, j \in 1..Len(classification_results) :
          classification_results[i].confidence_score
              > classification_results[j].confidence_score
          => LevelRank(classification_results[i].confidence_level)
                >= LevelRank(classification_results[j].confidence_level)

(* two stored results of different levels and different scores *)
C29_Witness ==
    \E i, j \in 1..Len(classification_results) :
        /\ classification_results[i].confidence_score
              > classification_results[j].confidence_score
        /\ classification_results[i].confidence_level = "medium"
        /\ classification_results[j].confidence_level = "low"

(* C30: uploadDocument called without content or with the empty string
   stores a document whose content is null; no step of any operation
   changes or removes a stored document; and every classifyDocument call
   for a document whose content is null fails with the no-content error
   and stores nothing, whatever categories, criteria and results exist. *)
C30_NoContentStaysUnclassifiable ==
    [][/\ \A content \in NoContentInputs :
             UploadDocument(content) =>
                 /\ last'.result.content = Null
                 /\ documents'[Len(documents')].content = Null
       /\ Len(documents') >= Len(documents)
       /\ \A i \in 1..Len(documents) : documents'[i] = documents[i]
       /\ \A i \in 1..Len(documents) :
             (/\ documents[i].content = Null
              /\ last'.op = "classifyDocument"
              /\ last'.document_id = documents[i].id)
             => /\ last'.error = "NoContent"
                /\ last'.result = Null
                /\ classification_results' = classification_results]_vars

(* a call for a document uploaded without content has failed with the
   no-content error after another document was classified *)
C30_Witness ==
    /\ Classified
    /\ last.error = "NoContent"
    /\ DocExists
    /\ Doc.content = Null
    /\ CriteriaJoinCategories # <<>>
    /\ classification_results # <<>>

====
